---- MODULE Spec2Model ----
(***************************************************************************)
(* Model of netcode-rs' sealed-buffer codec (src/crypto.rs) and of its     *)
(* UDP transceiver (src/socket.rs).                                        *)
(*                                                                         *)
(* The codec calls the chacha20poly1305 crate.  The crate is modelled by   *)
(* its contract (RFC 8439): a stream cipher that XORs the region with a    *)
(* keystream determined by key, nonce and position, and a tag that is a    *)
(* function of key, nonce, associated data and ciphertext.  The tag is     *)
(* kept symbolic (a term over its inputs), i.e. collision free: every      *)
(* statement below about tags is a statement about what the codec hands    *)
(* to the cipher, under the assumption that the cipher's tag is unforgeable.*)
(*                                                                         *)
(* A u64 is a tuple of four 16-bit limbs, least significant first, since   *)
(* TLC's integers are 32 bits wide.                                        *)
(***************************************************************************)
EXTENDS Integers, Sequences, FiniteSets, TLC

(* ------------------------------ constants ------------------------------ *)

\* crate::consts::MAC_SIZE (the 128-bit tag)
MAC_SIZE == 16

\* crate::consts::PRIVATE_KEY_SIZE
PRIVATE_KEY_SIZE == 32

\* let mut final_nonce = [0; 12];
FINAL_NONCE_LEN == 12

\* &mut final_nonce[4..]
NONCE_OFFSET == 4

\* chacha20poly1305::Tag is 16 bytes
TAG_SIZE == 16

(* ------------------------------- bounds -------------------------------- *)

\* longest plaintext region of a buffer
MaxPlain == 2

\* longest buffer handed to recv and send
MaxDatagram == 2

(* ------------------------------- values -------------------------------- *)

\* a cell of a buffer: a concrete byte (term = <<>>, val = the byte) or byte
\* idx of a tag (term = <<key, nonce, aad, ciphertext, idx>>, val = the bits
\* flipped in it since the cipher wrote it)
Byte(b) == [term |-> <<>>, val |-> b]

Zeros(n) == [i \in 1..n |-> Byte(0)]

\* "hello"
Hello == <<104, 101, 108, 108, 111>>

\* the plaintexts of length n: a prefix of "hello" (repeated) and n bytes 0xFF
Plaintexts ==
  UNION {{[i \in 1..n |-> Byte(Hello[((i - 1) % 5) + 1])],
          [i \in 1..n |-> Byte(255)]} : n \in 0..MaxPlain}

ZeroKey == [i \in 1..PRIVATE_KEY_SIZE |-> 0]

Keys == {ZeroKey, [ZeroKey EXCEPT ![PRIVATE_KEY_SIZE] = 1]}

\* u64 values: 0, 1, 2^64 - 1
Nonces == {<<0, 0, 0, 0>>, <<1, 0, 0, 0>>, <<65535, 65535, 65535, 65535>>}

\* further u64 values: 2^8, 2^32, 2^63, 0x0807060504030201
U64Samples ==
  Nonces \cup {<<256, 0, 0, 0>>, <<0, 0, 1, 0>>, <<0, 0, 0, 32768>>,
               <<513, 1027, 1541, 2055>>}

\* Option<&[u8]>
None == [some |-> FALSE, data |-> <<>>]

Some(d) == [some |-> TRUE, data |-> d]

AssociatedData == {None, Some(<<>>), Some(<<7>>)}

(* ----------------------------- bit helpers ----------------------------- *)

RECURSIVE XorBits(_, _, _)
XorBits(a, b, n) ==
  IF n = 0 THEN 0
  ELSE (((a % 2) + (b % 2)) % 2) + (2 * XorBits(a \div 2, b \div 2, n - 1))

Xor8(a, b) == XorBits(a, b, 8)

RECURSIVE Pow2(_)
Pow2(n) == IF n = 0 THEN 1 ELSE 2 * Pow2(n - 1)

RECURSIVE WeightedSum(_, _)
WeightedSum(s, i) ==
  IF i > Len(s) THEN 0 ELSE ((i * s[i]) + WeightedSum(s, i + 1)) % 256

(* ------------------------- nonce derivation --------------------------- *)

\* byte k (0..7) of the little-endian encoding of the u64 n
LittleEndianByte(n, k) == (n[(k \div 2) + 1] \div Pow2(8 * (k % 2))) % 256

\* a writer that puts the most significant byte first
write_u64_be(slice, n) ==
  IF Len(slice) < 8 THEN [ok |-> FALSE, out |-> slice]
  ELSE [ok |-> TRUE,
        out |-> [i \in 1..Len(slice) |->
                   IF i <= 8 THEN LittleEndianByte(n, 8 - i) ELSE slice[i]]]

\* io::Cursor::new(slice).write_u64::<LittleEndian>(n): the eight bytes go to
\* the front of the slice; a slice shorter than eight bytes is an io error
write_u64(slice, n) ==
  IF Len(slice) < 8 THEN [ok |-> FALSE, out |-> slice]
  ELSE [ok |-> TRUE,
        out |-> [i \in 1..Len(slice) |->
                   IF i <= 8 THEN LittleEndianByte(n, i - 1) ELSE slice[i]]]

\* let mut final_nonce = [0; 12];
\* io::Cursor::new(&mut final_nonce[4..]).write_u64::<LittleEndian>(nonce)?;
final_nonce(nonce) ==
  LET zero == [i \in 1..FINAL_NONCE_LEN |-> 0]
      w == write_u64(SubSeq(zero, NONCE_OFFSET + 1, FINAL_NONCE_LEN), nonce)
  IN [ok |-> w.ok, val |-> SubSeq(zero, 1, NONCE_OFFSET) \o w.out]

(* ------------------------------ the cipher ----------------------------- *)

\* keystream byte i under (key, nonce): a fixed function of the three
KeyStream(key, n12, i) ==
  (WeightedSum(key, 1) + WeightedSum(n12, 1) + (31 * i) + 1) % 256

ApplyKeyStream(key, n12, region) ==
  [i \in 1..Len(region) |->
     [region[i] EXCEPT !.val = Xor8(region[i].val, KeyStream(key, n12, i))]]

\* the tag over (key, nonce, aad, ciphertext): TAG_SIZE symbolic bytes
ComputeTag(key, n12, aad, ct) ==
  [i \in 1..TAG_SIZE |-> [term |-> <<key, n12, aad, ct, i>>, val |-> 0]]

\* AeadInPlace::encrypt_in_place_detached
encrypt_in_place_detached(key, n12, aad, region) ==
  LET ct == ApplyKeyStream(key, n12, region)
  IN [out |-> ct, tag |-> ComputeTag(key, n12, aad, ct)]

\* AeadInPlace::decrypt_in_place_detached: the tag is compared first, the
\* keystream is applied only when it matches
decrypt_in_place_detached(key, n12, aad, region, tag) ==
  IF tag = ComputeTag(key, n12, aad, region)
  THEN [ok |-> TRUE, out |-> ApplyKeyStream(key, n12, region)]
  ELSE [ok |-> FALSE, out |-> region]

(* ------------------------------ the codec ------------------------------ *)

\* an Option that turns None into one zero byte
unwrap_or_zero_byte(associated_data) ==
  IF associated_data.some THEN associated_data.data ELSE <<0>>

\* Option::unwrap_or_default
unwrap_or_default(associated_data) ==
  IF associated_data.some THEN associated_data.data ELSE <<>>

\* what a call leaves: its result, the buffer, whether the cipher ran, and
\* the cipher nonce it built
Outcome(res, buf, called, fn) ==
  [res |-> res, buf |-> buf, called |-> called, final_nonce |-> fn]

\* encrypt past the nonce: the cipher call and the copy of the tag
seal_in_place(buffer, associated_data, n12, key) ==
  LET size == Len(buffer)
      r == encrypt_in_place_detached(key, n12,
             unwrap_or_default(associated_data),
             SubSeq(buffer, 1, size - MAC_SIZE))
  IN \* copy_from_slice panics when the two lengths differ
     IF Len(r.tag) # MAC_SIZE
     THEN Outcome("panic", r.out \o SubSeq(buffer, size - MAC_SIZE + 1, size),
                  TRUE, n12)
     ELSE Outcome("Ok", r.out \o r.tag, TRUE, n12)

\* an encrypt whose size check is off by one
encrypt_off_by_one(buffer, associated_data, nonce, key) ==
  LET size == Len(buffer) IN
  IF size <= MAC_SIZE THEN Outcome("BufferSizeMismatch", buffer, FALSE, <<>>)
  ELSE
    LET fn == final_nonce(nonce) IN
    IF ~fn.ok THEN Outcome("Io", buffer, FALSE, <<>>)
    ELSE seal_in_place(buffer, associated_data, fn.val, key)

encrypt(buffer, associated_data, nonce, key) ==
  LET size == Len(buffer) IN
  IF size < MAC_SIZE THEN Outcome("BufferSizeMismatch", buffer, FALSE, <<>>)
  ELSE
    LET fn == final_nonce(nonce) IN
    IF ~fn.ok THEN Outcome("Io", buffer, FALSE, <<>>)
    ELSE seal_in_place(buffer, associated_data, fn.val, key)

\* decrypt past the nonce: the split, the cipher call and its `?`
open_in_place(buffer, associated_data, n12, key) ==
  LET mid == Len(buffer) - MAC_SIZE
      region == SubSeq(buffer, 1, mid)
      mac == SubSeq(buffer, mid + 1, Len(buffer))
  IN \* Tag::from_slice panics when the slice is not TAG_SIZE long
     IF Len(mac) # TAG_SIZE THEN Outcome("panic", buffer, FALSE, n12)
     ELSE
       LET r == decrypt_in_place_detached(key, n12,
                  unwrap_or_default(associated_data), region, mac)
       IN Outcome(IF r.ok THEN "Ok" ELSE "Failed", r.out \o mac, TRUE, n12)

\* a decrypt that builds the cipher nonce most significant byte first
decrypt_big_endian(buffer, associated_data, nonce, key) ==
  IF Len(buffer) < MAC_SIZE
  THEN Outcome("BufferSizeMismatch", buffer, FALSE, <<>>)
  ELSE
    LET zero == [i \in 1..FINAL_NONCE_LEN |-> 0]
        w == write_u64_be(SubSeq(zero, NONCE_OFFSET + 1, FINAL_NONCE_LEN), nonce)
    IN open_in_place(buffer, associated_data,
                     SubSeq(zero, 1, NONCE_OFFSET) \o w.out, key)

\* a decrypt that drops the cipher's verdict
decrypt_unchecked(buffer, associated_data, nonce, key) ==
  IF Len(buffer) < MAC_SIZE
  THEN Outcome("BufferSizeMismatch", buffer, FALSE, <<>>)
  ELSE
    LET r == open_in_place(buffer, associated_data, final_nonce(nonce).val, key)
    IN [r EXCEPT !.res = "Ok"]

\* a decrypt that hands no associated data to the cipher
decrypt_without_aad(buffer, associated_data, nonce, key) ==
  IF Len(buffer) < MAC_SIZE
  THEN Outcome("BufferSizeMismatch", buffer, FALSE, <<>>)
  ELSE open_in_place(buffer, None, final_nonce(nonce).val, key)

\* a decrypt that applies the keystream before the tag is compared
decrypt_eager(buffer, associated_data, nonce, key) ==
  IF Len(buffer) < MAC_SIZE
  THEN Outcome("BufferSizeMismatch", buffer, FALSE, <<>>)
  ELSE
    LET fn == final_nonce(nonce).val
        mid == Len(buffer) - MAC_SIZE
        r == open_in_place(buffer, associated_data, fn, key)
    IN [r EXCEPT !.buf = ApplyKeyStream(key, fn, SubSeq(buffer, 1, mid))
                          \o SubSeq(buffer, mid + 1, Len(buffer))]

decrypt(buffer, associated_data, nonce, key) ==
  IF Len(buffer) < MAC_SIZE
  THEN Outcome("BufferSizeMismatch", buffer, FALSE, <<>>)
  ELSE
    LET fn == final_nonce(nonce) IN
    IF ~fn.ok THEN Outcome("Io", buffer, FALSE, <<>>)
    ELSE open_in_place(buffer, associated_data, fn.val, key)

(* --------------------------- the transceiver --------------------------- *)

\* SocketAddr
V4 == [family |-> "v4", ip |-> "127.0.0.1", port |-> 41235]

V6 == [family |-> "v6", ip |-> "::1", port |-> 41235]

NoAddr == [family |-> "none", ip |-> "", port |-> 0]

\* what addr.to_socket_addrs() yields: an error or an iterator of addresses
Resolutions ==
  {[ok |-> FALSE, addrs |-> <<>>], [ok |-> TRUE, addrs |-> <<>>],
   [ok |-> TRUE, addrs |-> <<V4>>], [ok |-> TRUE, addrs |-> <<V6>>],
   [ok |-> TRUE, addrs |-> <<V6, V4>>]}

BufSizes == {0, 262144}

OsCalls ==
  {"socket", "set_only_v6", "set_send_buffer_size", "set_recv_buffer_size",
   "bind", "set_nonblocking"}

\* a socket2::Socket / std::net::UdpSocket as the OS holds it
NoSocket ==
  [open |-> FALSE, family |-> "none", only_v6 |-> FALSE,
   send_buffer_size |-> 0, recv_buffer_size |-> 0, local |-> NoAddr,
   bound |-> FALSE, nonblocking |-> FALSE]

\* the effect of one successful OS call on the socket
Effect(sock, call, arg) ==
  CASE call = "socket" -> [NoSocket EXCEPT !.open = TRUE, !.family = arg]
    [] call = "set_only_v6" -> [sock EXCEPT !.only_v6 = arg]
    [] call = "set_send_buffer_size" -> [sock EXCEPT !.send_buffer_size = arg]
    [] call = "set_recv_buffer_size" -> [sock EXCEPT !.recv_buffer_size = arg]
    [] call = "bind" -> [sock EXCEPT !.bound = TRUE, !.local = arg]
    [] call = "set_nonblocking" -> [sock EXCEPT !.nonblocking = arg]

\* `call(arg)?`: skipped once an earlier step has returned the error; the
\* calls in `failing` are the ones the OS refuses
Try(st, call, arg, failing) ==
  IF st.err # "none" THEN st
  ELSE IF call \in failing
    THEN [st EXCEPT !.calls = Append(@, call), !.err = call]
    ELSE [st EXCEPT !.calls = Append(@, call),
                    !.sock = Effect(st.sock, call, arg)]

NewErr(err, calls) ==
  [res |-> "Err", err |-> err, sock |-> NoSocket, calls |-> calls]

\* a constructor that drops the result of bind
new_ignoring_bind(addr, send_buf_size, recv_buf_size, failing) ==
  IF ~addr.ok THEN NewErr("to_socket_addrs", <<>>)
  ELSE IF addr.addrs = <<>> THEN NewErr("InvalidInput", <<>>)
  ELSE
    LET a == Head(addr.addrs)
        s0 == [sock |-> NoSocket, calls |-> <<>>, err |-> "none"]
        s1 == Try(s0, "socket", a.family, failing)
        s2 == IF a.family = "v6" THEN Try(s1, "set_only_v6", TRUE, failing)
              ELSE s1
        s3 == Try(s2, "set_send_buffer_size", send_buf_size, failing)
        s4 == Try(s3, "set_recv_buffer_size", recv_buf_size, failing)
        t5 == Try(s4, "bind", a, failing)
        s5 == IF t5.err = "bind" THEN [t5 EXCEPT !.err = "none"] ELSE t5
        s6 == Try(s5, "set_nonblocking", TRUE, failing)
    IN IF s6.err # "none" THEN NewErr(s6.err, s6.calls)
       ELSE [res |-> "Ok", err |-> "none", sock |-> s6.sock, calls |-> s6.calls]

\* NetcodeSocket::new
new(addr, send_buf_size, recv_buf_size, failing) ==
  IF ~addr.ok THEN NewErr("to_socket_addrs", <<>>)
  ELSE IF addr.addrs = <<>> THEN NewErr("InvalidInput", <<>>)
  ELSE
    LET a == Head(addr.addrs)
        s0 == [sock |-> NoSocket, calls |-> <<>>, err |-> "none"]
        s1 == Try(s0, "socket", a.family, failing)
        s2 == IF a.family = "v6" THEN Try(s1, "set_only_v6", TRUE, failing)
              ELSE s1
        s3 == Try(s2, "set_send_buffer_size", send_buf_size, failing)
        s4 == Try(s3, "set_recv_buffer_size", recv_buf_size, failing)
        s5 == Try(s4, "bind", a, failing)
        s6 == Try(s5, "set_nonblocking", TRUE, failing)
    IN IF s6.err # "none" THEN NewErr(s6.err, s6.calls)
       ELSE [res |-> "Ok", err |-> "none", sock |-> s6.sock, calls |-> s6.calls]

Peers == {V4, [V4 EXCEPT !.port = 41236]}

IoErrors == {"ConnectionReset", "Interrupted"}

OsOk(len, addr) == [ok |-> TRUE, len |-> len, addr |-> addr, kind |-> "none"]

OsErr(kind) == [ok |-> FALSE, len |-> 0, addr |-> NoAddr, kind |-> kind]

\* UdpSocket::local_addr: the bound address; a socket that was never bound
\* has none on some platforms and the unspecified address on others
LocalAddrOutcomes(sock) ==
  IF sock.bound THEN {OsOk(0, sock.local)}
  ELSE {OsOk(0, NoAddr), OsErr("InvalidInput")}

\* UdpSocket::recv_from into a buffer of buflen bytes: a datagram (cut to
\* the buffer), would-block on a non-blocking socket only, or another error
RecvFromOutcomes(sock, buflen) ==
  {OsOk(len, src) : len \in 0..buflen, src \in Peers}
    \cup {OsErr(k) : k \in IoErrors}
    \cup (IF sock.nonblocking THEN {OsErr("WouldBlock")} ELSE {})

\* UdpSocket::send_to of buflen bytes: a datagram goes out whole or not at all
SendToOutcomes(sock, buflen) ==
  {OsOk(buflen, NoAddr)}
    \cup {OsErr(k) : k \in IoErrors}
    \cup (IF sock.nonblocking THEN {OsErr("WouldBlock")} ELSE {})

Ret(tag, len, address, err) ==
  [tag |-> tag, len |-> len, addr |-> address, err |-> err]

\* Transceiver::addr
addr(os) ==
  IF os.ok THEN Ret("Ok", 0, os.addr, "none")
  ELSE Ret("panic", 0, NoAddr, "address should be bound")

\* a recv without the `len > 0` guard
recv_any_length(os) ==
  IF os.ok THEN Ret("Some", os.len, os.addr, "none")
  ELSE IF os.kind = "WouldBlock" THEN Ret("None", 0, NoAddr, "none")
  ELSE Ret("Err", 0, NoAddr, os.kind)

\* Transceiver::recv
recv(os) ==
  IF os.ok /\ os.len > 0 THEN Ret("Some", os.len, os.addr, "none")
  ELSE IF os.ok THEN Ret("None", 0, NoAddr, "none")
  ELSE IF os.kind = "WouldBlock" THEN Ret("None", 0, NoAddr, "none")
  ELSE Ret("Err", 0, NoAddr, os.kind)

\* a send that reports would-block as an error
send_would_block_is_error(os) ==
  IF os.ok THEN Ret("Ok", os.len, NoAddr, "none")
  ELSE Ret("Err", 0, NoAddr, os.kind)

\* Transceiver::send
send(os) ==
  IF os.ok THEN Ret("Ok", os.len, NoAddr, "none")
  ELSE IF os.kind = "WouldBlock" THEN Ret("Ok", 0, NoAddr, "none")
  ELSE Ret("Err", 0, NoAddr, os.kind)

(* ------------------------------- state --------------------------------- *)

VARIABLES
  buffer,   \* the caller's buffer
  op,       \* the last call: its name, arguments, the buffer before it, its outcome
  sealed,   \* the successful encrypt of this buffer
  phase,    \* "fresh", "sealed" (encrypt succeeded), "tampered" (a bit was
            \* flipped in flight), "done"
  ctor,     \* NetcodeSocket::new: its arguments, the OS calls it made, its result
  inst,     \* the socket of the NetcodeSocket that new returned
  last      \* the last call on the instance: what the OS said, what it returned

codecVars == <<buffer, op, sealed, phase>>

socketVars == <<ctor, inst, last>>

vars == <<buffer, op, sealed, phase, ctor, inst, last>>

NoOp ==
  [name |-> "none", associated_data |-> None, nonce |-> <<0, 0, 0, 0>>,
   key |-> ZeroKey, before |-> <<>>, res |-> "none", called |-> FALSE,
   final_nonce |-> <<>>]

NoSeal ==
  [valid |-> FALSE, plain |-> <<>>, associated_data |-> None,
   nonce |-> <<0, 0, 0, 0>>, key |-> ZeroKey, final_nonce |-> <<>>,
   out |-> <<>>]

NoCtor ==
  [res |-> "none", err |-> "none", calls |-> <<>>,
   addr |-> [ok |-> FALSE, addrs |-> <<>>], send_buf_size |-> 0,
   recv_buf_size |-> 0, failing |-> {}]

NoCall ==
  [name |-> "none", buflen |-> 0, os |-> OsErr("none"),
   ret |-> Ret("none", 0, NoAddr, "none")]

NoInstance ==
  /\ ctor = NoCtor
  /\ inst = NoSocket
  /\ last = NoCall

Init ==
  /\ buffer \in {Zeros(n) : n \in 0..(MAC_SIZE - 1)}
                  \cup {p \o Zeros(MAC_SIZE) : p \in Plaintexts}
  /\ op = NoOp
  /\ sealed = NoSeal
  /\ phase = "fresh"
  /\ NoInstance

Called(name, ad, n, k, r) ==
  [name |-> name, associated_data |-> ad, nonce |-> n, key |-> k,
   before |-> buffer, res |-> r.res, called |-> r.called,
   final_nonce |-> r.final_nonce]

\* the sender seals the buffer
Encrypt(ad, n, k) ==
  /\ phase = "fresh"
  /\ LET r == encrypt(buffer, ad, n, k) IN
       /\ buffer' = r.buf
       /\ op' = Called("encrypt", ad, n, k, r)
       /\ sealed' = IF r.res = "Ok"
                    THEN [valid |-> TRUE,
                          plain |-> SubSeq(buffer, 1, Len(buffer) - MAC_SIZE),
                          associated_data |-> ad, nonce |-> n, key |-> k,
                          final_nonce |-> r.final_nonce, out |-> r.buf]
                    ELSE sealed
       /\ phase' = IF r.res = "Ok" THEN "sealed" ELSE "done"
  /\ UNCHANGED socketVars

\* the receiver opens the buffer: as it was sealed, as the network changed
\* it, or one that was never sealed
Decrypt(ad, n, k) ==
  /\ phase # "done"
  /\ LET r == decrypt(buffer, ad, n, k) IN
       /\ buffer' = r.buf
       /\ op' = Called("decrypt", ad, n, k, r)
  /\ phase' = "done"
  /\ UNCHANGED <<sealed, socketVars>>

\* the network flips bit b of byte i of the sealed buffer
FlipBit(i, b) ==
  /\ phase = "sealed"
  /\ i \in 1..Len(buffer)
  /\ buffer' = [buffer EXCEPT ![i].val = Xor8(@, Pow2(b))]
  /\ op' = [NoOp EXCEPT !.name = "flip", !.before = buffer]
  /\ phase' = "tampered"
  /\ UNCHANGED <<sealed, socketVars>>

Next ==
  \/ \E ad \in AssociatedData, n \in Nonces, k \in Keys : Encrypt(ad, n, k)
  \/ \E ad \in AssociatedData, n \in Nonces, k \in Keys : Decrypt(ad, n, k)
  \/ \E i \in 1..(MAC_SIZE + MaxPlain), b \in 0..7 : FlipBit(i, b)

Spec == Init /\ [][Next]_vars

(* ----------------------- the transceiver's runs ------------------------ *)

SocketInit ==
  /\ buffer = <<>>
  /\ op = NoOp
  /\ sealed = NoSeal
  /\ phase = "done"
  /\ NoInstance

New(a, sb, rb, failing) ==
  /\ ctor.res = "none"
  /\ LET r == new(a, sb, rb, failing) IN
       /\ ctor' = [res |-> r.res, err |-> r.err, calls |-> r.calls, addr |-> a,
                   send_buf_size |-> sb, recv_buf_size |-> rb,
                   failing |-> failing]
       /\ inst' = r.sock
  /\ UNCHANGED <<last, codecVars>>

Addr ==
  /\ ctor.res = "Ok"
  /\ \E os \in LocalAddrOutcomes(inst) :
       last' = [name |-> "addr", buflen |-> 0, os |-> os, ret |-> addr(os)]
  /\ UNCHANGED <<ctor, inst, codecVars>>

Recv(buflen) ==
  /\ ctor.res = "Ok"
  /\ \E os \in RecvFromOutcomes(inst, buflen) :
       last' = [name |-> "recv", buflen |-> buflen, os |-> os, ret |-> recv(os)]
  /\ UNCHANGED <<ctor, inst, codecVars>>

Send(buflen) ==
  /\ ctor.res = "Ok"
  /\ \E os \in SendToOutcomes(inst, buflen) :
       last' = [name |-> "send", buflen |-> buflen, os |-> os, ret |-> send(os)]
  /\ UNCHANGED <<ctor, inst, codecVars>>

SocketNext ==
  \/ \E a \in Resolutions, sb \in BufSizes, rb \in BufSizes,
        failing \in {{}} \cup {{c} : c \in OsCalls} : New(a, sb, rb, failing)
  \/ Addr
  \/ \E buflen \in 0..MaxDatagram : Recv(buflen)
  \/ \E buflen \in 0..MaxDatagram : Send(buflen)

SocketSpec == SocketInit /\ [][SocketNext]_vars

(* ------------------------------- claims -------------------------------- *)

Region(buf) == SubSeq(buf, 1, Len(buf) - MAC_SIZE)

TagOf(buf) == SubSeq(buf, Len(buf) - MAC_SIZE + 1, Len(buf))

CodecCall == op.name \in {"encrypt", "decrypt"}

\* the last call is a decrypt of a buffer that encrypt sealed
Opening == op.name = "decrypt" /\ sealed.valid

SameParams ==
  /\ op.associated_data = sealed.associated_data
  /\ op.nonce = sealed.nonce
  /\ op.key = sealed.key

DiffCells(a, b) == {i \in 1..Len(a) : a[i] # b[i]}

\* C1: encrypt of a plaintext followed by MAC_SIZE spare bytes succeeds and
\* keeps the length, for every plaintext length from 0 on; decrypt of the
\* buffer encrypt produced, with the same associated data, nonce and key,
\* succeeds and leaves the plaintext in the leading len - MAC_SIZE bytes.
C1_RoundTrip ==
  /\ (op.name = "encrypt" /\ Len(op.before) >= MAC_SIZE)
       => (op.res = "Ok" /\ Len(buffer) = Len(op.before))
  /\ (Opening /\ SameParams /\ op.before = sealed.out)
       => (op.res = "Ok" /\ Region(buffer) = sealed.plain)

C1_Witness ==
  /\ Opening /\ SameParams /\ op.before = sealed.out
  /\ op.res = "Ok"
  /\ Len(sealed.plain) = MaxPlain
  /\ Region(sealed.out) # sealed.plain
  /\ Region(buffer) = sealed.plain

\* C2: a decrypt with the associated data, nonce and key of the seal fails
\* with the cipher's error whenever the buffer differs from the sealed one
\* (a flipped bit of the ciphertext or of the tag), and a decrypt that
\* returns Ok leaves exactly the plaintext that was sealed.
C2_TamperDetected ==
  /\ (Opening /\ SameParams /\ op.before # sealed.out) => op.res = "Failed"
  /\ (Opening /\ SameParams /\ op.res = "Ok")
       => Region(buffer) = sealed.plain

C2_Witness ==
  /\ Opening /\ SameParams
  /\ phase = "done"
  /\ Len(op.before) = Len(sealed.out)
  /\ Cardinality(DiffCells(op.before, sealed.out)) = 1
  /\ \E i \in DiffCells(op.before, sealed.out) :
       /\ i > Len(sealed.plain)
       /\ op.before[i].val = 128
  /\ op.res = "Failed"

\* C3: a decrypt of the sealed buffer with another nonce, other associated
\* data or another key than the seal's fails with the cipher's error.
C3_ParameterBinding ==
  (/\ Opening
   /\ op.before = sealed.out
   /\ \/ op.nonce # sealed.nonce
      \/ unwrap_or_default(op.associated_data)
           # unwrap_or_default(sealed.associated_data)
      \/ op.key # sealed.key)
    => op.res = "Failed"

C3_Witness ==
  /\ Opening
  /\ op.before = sealed.out
  /\ sealed.nonce = <<0, 0, 0, 0>>
  /\ op.nonce = <<1, 0, 0, 0>>
  /\ sealed.associated_data = None /\ op.associated_data = None
  /\ sealed.key = ZeroKey /\ op.key = ZeroKey
  /\ op.res = "Failed"

\* C4: on a buffer shorter than MAC_SIZE encrypt and decrypt return
\* BufferSizeMismatch, do not panic, do not call the cipher and leave the
\* buffer as it was; on a buffer of MAC_SIZE bytes or more neither returns
\* BufferSizeMismatch.
C4_SizePrecondition ==
  CodecCall =>
    /\ Len(op.before) < MAC_SIZE
         => (op.res = "BufferSizeMismatch" /\ ~op.called /\ buffer = op.before)
    /\ Len(op.before) >= MAC_SIZE => op.res # "BufferSizeMismatch"

C4_Witness ==
  /\ op.name = "decrypt"
  /\ Len(op.before) = MAC_SIZE - 1
  /\ op.res = "BufferSizeMismatch"
  /\ buffer = op.before

\* C5: a decrypt that reaches the cipher ends in one of two ways: Ok, the
\* tag having matched the ciphertext, associated data and cipher nonce, with
\* every byte of the region decrypted; or the cipher's error with the buffer
\* as it was, no byte of it decrypted.
C5_CheckThenMutate ==
  (op.name = "decrypt" /\ op.called) =>
    \/ /\ op.res = "Ok"
       /\ TagOf(op.before)
            = ComputeTag(op.key, op.final_nonce,
                         unwrap_or_default(op.associated_data), Region(op.before))
       /\ Region(buffer)
            = ApplyKeyStream(op.key, op.final_nonce, Region(op.before))
       /\ TagOf(buffer) = TagOf(op.before)
    \/ /\ op.res = "Failed"
       /\ buffer = op.before

C5_Witness ==
  /\ op.name = "decrypt" /\ op.called
  /\ op.res = "Failed"
  /\ phase = "done" /\ sealed.valid /\ SameParams
  /\ Len(Region(op.before)) = MaxPlain
  /\ Region(op.before) # sealed.plain
  /\ buffer = op.before

\* the cipher nonce fn encodes the u64 n: twelve bytes, the first four zero,
\* the other eight the little-endian bytes of n (two to a 16-bit limb)
EncodesNonce(fn, n) ==
  /\ Len(fn) = FINAL_NONCE_LEN
  /\ \A i \in 1..NONCE_OFFSET : fn[i] = 0
  /\ \A i \in 1..Len(fn) : fn[i] \in 0..255
  /\ \A j \in 1..4 :
       fn[NONCE_OFFSET + (2 * j) - 1] + (256 * fn[NONCE_OFFSET + (2 * j)]) = n[j]

\* C9: encrypt and decrypt build the same 12-byte cipher nonce from a u64:
\* bytes 0..4 zero, bytes 4..12 its little-endian encoding; the derivation
\* never fails and no two u64 values share a cipher nonce.
C9_NonceDerivation ==
  /\ (CodecCall /\ Len(op.before) >= MAC_SIZE)
       => /\ op.res # "Io"
          /\ EncodesNonce(op.final_nonce, op.nonce)
          /\ \A m \in U64Samples :
               m # op.nonce => final_nonce(m).val # op.final_nonce
  /\ (Opening /\ op.called /\ op.nonce = sealed.nonce)
       => op.final_nonce = sealed.final_nonce
  /\ \A m \in U64Samples :
       final_nonce(m).ok /\ EncodesNonce(final_nonce(m).val, m)

C9_Witness ==
  /\ Opening /\ op.called
  /\ op.nonce = <<1, 0, 0, 0>>
  /\ sealed.nonce = <<1, 0, 0, 0>>
  /\ op.final_nonce = <<0, 0, 0, 0, 1, 0, 0, 0, 0, 0, 0, 0>>
  /\ sealed.final_nonce = op.final_nonce

Absent(ad) == unwrap_or_default(ad) = <<>>

OtherAbsent(ad) == IF ad = None THEN Some(<<>>) ELSE None

\* C10: encrypt with associated data None and with Some(empty) produce the
\* same sealed buffer, and a buffer sealed with one of the two is opened by
\* decrypt called with the other.
C10_AbsentIsEmpty ==
  /\ (op.name = "encrypt" /\ op.res = "Ok" /\ Absent(op.associated_data))
       => buffer = encrypt(op.before, OtherAbsent(op.associated_data),
                           op.nonce, op.key).buf
  /\ (/\ Opening
      /\ op.before = sealed.out
      /\ op.nonce = sealed.nonce
      /\ op.key = sealed.key
      /\ op.associated_data = OtherAbsent(sealed.associated_data)
      /\ Absent(sealed.associated_data))
       => (op.res = "Ok" /\ Region(buffer) = sealed.plain)

C10_Witness ==
  /\ Opening
  /\ op.before = sealed.out
  /\ sealed.associated_data = None
  /\ op.associated_data = Some(<<>>)
  /\ op.nonce = sealed.nonce /\ op.key = sealed.key
  /\ Len(sealed.plain) > 0
  /\ op.res = "Ok"

\* what recv and send return for each answer of the OS
RecvMapping ==
  last.name = "recv" =>
    /\ (last.ret.tag = "Some") <=> (last.os.ok /\ last.os.len > 0)
    /\ last.ret.tag = "Some"
         => (last.ret.len = last.os.len /\ last.ret.addr = last.os.addr)
    /\ (last.ret.tag = "None")
         <=> ((last.os.ok /\ last.os.len = 0)
                \/ (~last.os.ok /\ last.os.kind = "WouldBlock"))
    /\ (last.ret.tag = "Err")
         <=> (~last.os.ok /\ last.os.kind # "WouldBlock")
    /\ last.ret.tag = "Err" => last.ret.err = last.os.kind

\* C6: recv returns Some((n, addr)) exactly when the socket read n > 0 bytes
\* from addr, None on would-block and on a zero-length read, and Err with
\* the socket's error otherwise; it never returns Some with length 0.
C6_RecvOutcome ==
  /\ RecvMapping
  /\ last.name = "recv" => last.ret.tag \in {"Some", "None", "Err"}
  /\ ~(last.name = "recv" /\ last.ret.tag = "Some" /\ last.ret.len = 0)

C6_Witness ==
  /\ last.name = "recv"
  /\ last.buflen > 0
  /\ last.os.ok /\ last.os.len = 0
  /\ last.ret.tag = "None"

SendMapping ==
  last.name = "send" =>
    /\ last.os.ok => (last.ret.tag = "Ok" /\ last.ret.len = last.os.len)
    /\ (~last.os.ok /\ last.os.kind = "WouldBlock")
         => (last.ret.tag = "Ok" /\ last.ret.len = 0)
    /\ (~last.os.ok /\ last.os.kind # "WouldBlock")
         => (last.ret.tag = "Err" /\ last.ret.err = last.os.kind)

SentNothing == last.name = "send" /\ last.ret.tag = "Ok" /\ last.ret.len = 0

WouldBlock == ~last.os.ok /\ last.os.kind = "WouldBlock"

\* C7 as stated: send returns Ok(n) for n bytes accepted, Ok(0) on
\* would-block and Err otherwise, and a result of 0 means that the transport
\* could not accept data.
C7_ZeroMeansRetry ==
  /\ SendMapping
  /\ SentNothing => WouldBlock

\* C7, amended: send returns Ok(n) for n bytes accepted, Ok(0) on would-block
\* and Err otherwise; for a non-empty buffer a result of 0 means that the
\* transport could not accept data.
C7_SendOutcome ==
  /\ SendMapping
  /\ (SentNothing /\ last.buflen > 0) => WouldBlock

C7_Witness ==
  /\ SentNothing
  /\ last.buflen > 0
  /\ WouldBlock

\* the OS calls of a construction for address a, in order
CallOrder(a) ==
  <<"socket">> \o (IF a.family = "v6" THEN <<"set_only_v6">> ELSE <<>>)
    \o <<"set_send_buffer_size", "set_recv_buffer_size", "bind",
         "set_nonblocking">>

Resolved == ctor.addr.ok /\ ctor.addr.addrs # <<>>

\* C8: new resolves the address, then creates the socket of the address's
\* family, sets IPv6-only (for an IPv6 address only), the send buffer size,
\* the receive buffer size, binds and sets non-blocking, in this order; when
\* a step fails it returns Err and leaves no socket; the socket of a returned
\* instance is bound, non-blocking and, for an IPv6 address, IPv6-only, and
\* addr() on it does not panic.
C8_Construction ==
  /\ ctor.res = "Ok" =>
       /\ Resolved
       /\ LET a == Head(ctor.addr.addrs) IN
            /\ ctor.calls = CallOrder(a)
            /\ inst.open /\ inst.family = a.family
            /\ inst.bound /\ inst.local = a
            /\ inst.nonblocking
            /\ a.family = "v6" => inst.only_v6
            /\ inst.send_buffer_size = ctor.send_buf_size
            /\ inst.recv_buffer_size = ctor.recv_buf_size
  /\ ctor.res = "Err" =>
       /\ inst = NoSocket
       /\ last = NoCall
       /\ IF Resolved
          THEN LET order == CallOrder(Head(ctor.addr.addrs))
                   n == Len(ctor.calls)
               IN /\ n >= 1 /\ n <= Len(order)
                  /\ ctor.calls = SubSeq(order, 1, n)
                  /\ ctor.calls[n] \in ctor.failing
                  /\ \A i \in 1..(n - 1) : ctor.calls[i] \notin ctor.failing
          ELSE ctor.calls = <<>>
  /\ (ctor.res # "none" /\ Resolved
        /\ \E c \in ctor.failing :
             \E i \in 1..Len(CallOrder(Head(ctor.addr.addrs))) :
               CallOrder(Head(ctor.addr.addrs))[i] = c)
       => ctor.res = "Err"
  /\ (ctor.res # "none" /\ ~Resolved) => ctor.res = "Err"
  /\ last.name = "addr"
       => (last.ret.tag = "Ok" /\ last.ret.addr = Head(ctor.addr.addrs))

C8_Witness ==
  /\ ctor.res = "Ok"
  /\ Head(ctor.addr.addrs).family = "v6"
  /\ inst.only_v6 /\ inst.bound /\ inst.nonblocking
  /\ last.name = "addr"
  /\ last.ret.tag = "Ok"

====
